---- MODULE Spec2Model ----
(***************************************************************************)
(* FinetuneTaskManager (backend/app/core/taskmanager/                      *)
(* finetune_task_manager.py): the in-process scheduler of fine-tuning      *)
(* tasks.                                                                  *)
(*                                                                         *)
(* The manager runs on one asyncio event loop: a coroutine runs without    *)
(* interruption until it awaits something that suspends.  The suspension   *)
(* points of the code are the calls into the FinetuneInterface adapter     *)
(* (start_finetune, stop_finetune, get_finetune_status), asyncio.sleep and *)
(* the acquisition of an asyncio.Lock that is held; acquiring a free lock  *)
(* does not suspend.  Every action below is the code of one coroutine      *)
(* between two suspension points.  A coroutine that finds the lock held    *)
(* waits: its action is enabled once the lock is free, in any order among  *)
(* the waiting coroutines.                                                 *)
(*                                                                         *)
(* The adapter is the environment: each call may suspend and returns any   *)
(* of the outcomes its interface allows.  The constructor arguments        *)
(* max_concurrent_tasks and max_tasks_per_user are drawn from 1..MaxLimit, *)
(* and at most MaxTasks tasks are submitted.                               *)
(*                                                                         *)
(* get_task_status and list_user_tasks take no lock and assign nothing:    *)
(* their results are operators of the state, and their calls are steps     *)
(* that leave it unchanged.                                                *)
(*                                                                         *)
(* SpecK8s is the manager with the adapter the deployment gives it,        *)
(* K8sFinetuneService, whose replies are computed from the state of the    *)
(* Kubernetes Job as the code of the adapter chain computes them.          *)
(*                                                                         *)
(* SpecProcess is the process from the load of task_manager_singleton.py,  *)
(* with init_task_manager and get_task_manager called at any time, and     *)
(* SpecFair is Spec with the fairness of the event loop.  SpecLive adds    *)
(* that the adapter eventually reports the end of every job it is asked    *)
(* about.  The HTTP routes are operators that give the status code of a    *)
(* response.                                                               *)
(*                                                                         *)
(* Optional[...] fields are sets: {} is None, {v} is the value v.          *)
(***************************************************************************)
EXTENDS Integers, Sequences, FiniteSets, TLC

\* Bounds of the model.
MaxTasks == 2
MaxLimit == 2
MaxPage == 2

Users == {"alice", "bob"}
Params == {"p1"}
TaskIds == 1..MaxTasks

\* TaskStatus (enum values)
PENDING == "pending"
QUEUED == "queued"
RUNNING == "running"
COMPLETED == "completed"
FAILED == "failed"
CANCELLED == "cancelled"

TaskStatus == {PENDING, QUEUED, RUNNING, COMPLETED, FAILED, CANCELLED}

\* Optional values
NoValue == {}
Some(v) == {v}

\* str(e) of the exception start_finetune raised, and the fixed message of
\* _update_running_tasks ("任务执行失败").
StartError == "start_finetune error"
JobFailedMessage == "task execution failed"

VARIABLES
    max_concurrent_tasks,  \* constructor argument
    max_tasks_per_user,    \* constructor argument
    all_tasks,             \* task_id -> FinetuneTask
    task_queue,            \* deque of waiting tasks (by task_id), head first
    running_tasks,         \* dict task_id -> task, as its keys in insertion order
    user_task_counts,      \* user -> count (a missing key reads as 0)
    lock,                  \* holder of _schedule_lock: "free", "scheduler", "cancel"
    sched_pc,              \* position of the _task_scheduler coroutine
    sched_task,            \* the task whose adapter call the scheduler awaits
    completed_tasks,       \* local list of _update_running_tasks
    iter_pos,              \* dict iterator of _update_running_tasks: next index
    iter_used,             \* dict iterator: size of the dict when it was created
    cancel_pc,             \* position of the cancel_task coroutine inside the lock
    cancel_task_id,        \* the task whose stop_finetune call cancel_task awaits
    task_manager_instance, \* _task_manager_instance of task_manager_singleton.py
    scheduler_loops,       \* number of _task_scheduler tasks created in the process
    get_task_manager_cache \* what lru_cache holds for get_task_manager()

store == <<all_tasks, task_queue, running_tasks, user_task_counts>>
process == <<task_manager_instance, scheduler_loops, get_task_manager_cache>>
vars == <<max_concurrent_tasks, max_tasks_per_user, all_tasks, task_queue,
          running_tasks, user_task_counts, lock, sched_pc, sched_task,
          completed_tasks, iter_pos, iter_used, cancel_pc, cancel_task_id,
          task_manager_instance, scheduler_loops, get_task_manager_cache>>

----------------------------------------------------------------------------
\* Helpers

Range(s) == {s[i] : i \in 1..Len(s)}

\* deque.remove(x) / del dict[key]: drop the first occurrence of t
RECURSIVE RemoveFirst(_, _)
RemoveFirst(s, t) ==
    IF s = <<>> THEN <<>>
    ELSE IF Head(s) = t THEN Tail(s)
    ELSE <<Head(s)>> \o RemoveFirst(Tail(s), t)

\* datetime.utcnow() is strictly increasing.  The model keeps the order of
\* the timestamps only: created_at is the rank of the task among the tasks
\* created (all_tasks is filled in creation order), and a timestamp written to
\* a task later is one more than the latest timestamp the task holds, so that
\* a second write to a field always differs from the first.  Timestamps of
\* different tasks are compared by created_at only.
Max(S) == CHOOSE x \in S : \A y \in S : y <= x
UtcNow(task) == 1 + Max(task.started_at \cup task.finished_at \cup {task.created_at})

IsTerminal(st) == st \in {COMPLETED, FAILED, CANCELLED}
IsActive(st) == st \in {PENDING, QUEUED, RUNNING}

----------------------------------------------------------------------------
\* __init__

\* The manager that the startup event of main.py built with init_task_manager:
\* it is the first one of the process, its constructor created the one
\* _task_scheduler task, and get_task_manager was not called yet.
Init ==
    /\ task_manager_instance = Some(1)
    /\ scheduler_loops = 1
    /\ get_task_manager_cache = NoValue
    /\ max_concurrent_tasks \in 1..MaxLimit
    /\ max_tasks_per_user \in 1..MaxLimit
    /\ all_tasks = <<>>
    /\ task_queue = <<>>
    /\ running_tasks = <<>>
    /\ user_task_counts = [u \in Users |-> 0]
    /\ lock = "free"
    /\ sched_pc = "sleep"
    /\ sched_task = NoValue
    /\ completed_tasks = <<>>
    /\ iter_pos = 1
    /\ iter_used = 0
    /\ cancel_pc = "idle"
    /\ cancel_task_id = NoValue

----------------------------------------------------------------------------
\* submit_task

\* faulty variants of the quota check: off by one, and no check at all
QuotaExceededOffByOne(u) == user_task_counts[u] > max_tasks_per_user
QuotaNeverExceeded(u) == FALSE

\* the quota check of submit_task
QuotaExceeded(u) == user_task_counts[u] >= max_tasks_per_user

NewTask(t, u, p) ==
    [task_id |-> t, user_id |-> u, parameters_id |-> p, status |-> PENDING,
     created_at |-> t,
     started_at |-> NoValue, finished_at |-> NoValue, job_id |-> NoValue,
     error_message |-> NoValue]

\* faulty variant: the new task goes to the head of the wait queue
EnqueueFirst(q, t) == <<t>> \o q

\* self.task_queue.append(task)
Enqueue(q, t) == Append(q, t)

\* what submit_task does for the caller: raise the quota error, or return the id
SubmitResult(u) == IF QuotaExceeded(u) THEN "quota_error" ELSE "ok"

\* submit_task: the lock is free, so the whole call runs at once
SubmitTask(u, p) ==
    /\ lock = "free"
    /\ IF QuotaExceeded(u)
       THEN \* raise ValueError
            UNCHANGED <<all_tasks, task_queue, user_task_counts>>
       ELSE /\ Len(all_tasks) < MaxTasks
            /\ LET t == Len(all_tasks) + 1 IN
               /\ all_tasks' = Append(all_tasks, NewTask(t, u, p))
               /\ task_queue' = Enqueue(task_queue, t)
               /\ user_task_counts' = [user_task_counts EXCEPT ![u] = @ + 1]
    /\ UNCHANGED <<process, max_concurrent_tasks, max_tasks_per_user, running_tasks, lock,
                   sched_pc, sched_task, completed_tasks, iter_pos, iter_used,
                   cancel_pc, cancel_task_id>>

----------------------------------------------------------------------------
\* cancel_task

\* faulty variant: the cancelled task is left in the queue
QueueRemoveNothing(q, t) == q

\* self.task_queue.remove(task), a ValueError (task not queued) is swallowed
QueueRemove(q, t) == RemoveFirst(q, t)

\* faulty variant: a task that has ended is cancelled like a waiting one
IsWaitingOrEnded(t) ==
    all_tasks[t].status \in {PENDING, QUEUED, COMPLETED, FAILED, CANCELLED}

\* faulty variants: a job is stopped whatever the status of its task, and the
\* owner of the task is not compared with the caller
IsStoppableAnyStatus(t) == all_tasks[t].job_id # NoValue
NotFoundIgnoresOwner(u, t) == t \notin DOMAIN all_tasks

\* the if / elif of cancel_task
IsWaiting(t) == all_tasks[t].status = PENDING \/ all_tasks[t].status = QUEUED
IsStoppable(t) == all_tasks[t].status = RUNNING /\ all_tasks[t].job_id # NoValue

NotFound(u, t) == t \notin DOMAIN all_tasks \/ all_tasks[t].user_id # u

\* what cancel_task does for the caller before any await: raise ValueError,
\* return True, return False, or go on to await stop_finetune
CancelResult(u, t) ==
    IF NotFound(u, t) THEN "not_found"
    ELSE IF IsWaiting(t) THEN "true"
    ELSE IF IsStoppable(t) THEN "await_stop"
    ELSE "false"

\* what cancel_task returns after stop_finetune: True only when stop_finetune
\* returned True and del found the task in running_tasks
StopResult(reply, t) ==
    IF reply = "true" /\ t \in Range(running_tasks) THEN "true" ELSE "false"

\* cancel_task up to its return, or up to the await of stop_finetune
CancelTask(u, t) ==
    /\ lock = "free"
    /\ IF NotFound(u, t)
       THEN \* raise ValueError
            UNCHANGED <<all_tasks, task_queue, lock, cancel_pc, cancel_task_id>>
       ELSE IF IsWaiting(t)
       THEN /\ task_queue' = QueueRemove(task_queue, t)
            /\ all_tasks' = [all_tasks EXCEPT ![t].status = CANCELLED,
                                              ![t].finished_at = Some(UtcNow(all_tasks[t]))]
            /\ UNCHANGED <<lock, cancel_pc, cancel_task_id>>
       ELSE IF IsStoppable(t)
       THEN /\ lock' = "cancel"
            /\ cancel_pc' = "stop_call"
            /\ cancel_task_id' = Some(t)
            /\ UNCHANGED <<all_tasks, task_queue>>
       ELSE \* return False
            UNCHANGED <<all_tasks, task_queue, lock, cancel_pc, cancel_task_id>>
    /\ UNCHANGED <<process, max_concurrent_tasks, max_tasks_per_user, running_tasks,
                   user_task_counts, sched_pc, sched_task, completed_tasks,
                   iter_pos, iter_used>>

\* what stop_finetune may do: return True, return False, raise
StopReplies == {"true", "false", "raised"}

\* faulty variant: the task is cancelled whatever stop_finetune did
StopSucceededAlways(reply) == TRUE

\* if await self.finetune_service.stop_finetune(...), inside the try
StopSucceeded(reply) == reply = "true"

\* cancel_task from the return of stop_finetune to its own return
CancelStopReturn(reply) ==
    /\ cancel_pc = "stop_call"
    /\ \E t \in cancel_task_id :
        LET u == all_tasks[t].user_id IN
        IF StopSucceeded(reply)
        THEN /\ all_tasks' = [all_tasks EXCEPT ![t].status = CANCELLED,
                                               ![t].finished_at = Some(UtcNow(all_tasks[t]))]
             /\ IF t \in Range(running_tasks)
                THEN /\ running_tasks' = RemoveFirst(running_tasks, t)
                     /\ user_task_counts' = [user_task_counts EXCEPT ![u] = @ - 1]
                ELSE \* del raises KeyError, caught by except Exception
                     /\ UNCHANGED <<running_tasks, user_task_counts>>
        ELSE \* stop_finetune returned False or raised: return False
             UNCHANGED <<all_tasks, running_tasks, user_task_counts>>
    /\ lock' = "free"
    /\ cancel_pc' = "idle"
    /\ cancel_task_id' = NoValue
    /\ UNCHANGED <<process, max_concurrent_tasks, max_tasks_per_user, task_queue, sched_pc,
                   sched_task, completed_tasks, iter_pos, iter_used>>

----------------------------------------------------------------------------
\* _task_scheduler, _start_task, _update_running_tasks

\* faulty variant: the cleanup releases the slot of a task that is no longer
\* in running_tasks too
RECURSIVE CleanupLoopReleasesMissing(_, _)
CleanupLoopReleasesMissing(st, ids) ==
    IF ids = <<>> THEN st
    ELSE LET t == Head(ids) IN
         CleanupLoopReleasesMissing(
            [tasks   |-> [st.tasks EXCEPT ![t].finished_at = Some(UtcNow(st.tasks[t]))],
             running |-> RemoveFirst(st.running, t),
             counts  |-> [st.counts EXCEPT ![st.tasks[t].user_id] = @ - 1]],
            Tail(ids))

\* faulty variant: the cleanup keeps the quota slot of the ended task
RECURSIVE CleanupLoopKeepsCount(_, _)
CleanupLoopKeepsCount(st, ids) ==
    IF ids = <<>> THEN st
    ELSE LET t == Head(ids) IN
         IF t \notin Range(st.running) THEN st
         ELSE CleanupLoopKeepsCount(
                [tasks   |-> [st.tasks EXCEPT ![t].finished_at = Some(UtcNow(st.tasks[t]))],
                 running |-> RemoveFirst(st.running, t),
                 counts  |-> st.counts],
                Tail(ids))

\* the cleanup loop: pop raises KeyError for a task no longer in running_tasks,
\* which ends the loop (and the cycle) with the rest of the list unprocessed
RECURSIVE CleanupLoop(_, _)
CleanupLoop(st, ids) ==
    IF ids = <<>> THEN st
    ELSE LET t == Head(ids) IN
         IF t \notin Range(st.running) THEN st
         ELSE CleanupLoop(
                [tasks   |-> [st.tasks EXCEPT ![t].finished_at = Some(UtcNow(st.tasks[t]))],
                 running |-> RemoveFirst(st.running, t),
                 counts  |-> [st.counts EXCEPT ![st.tasks[t].user_id] = @ - 1]],
                Tail(ids))

\* the end of a cycle: the locals are gone and the scheduler sleeps
EndCycle ==
    /\ sched_pc' = "sleep"
    /\ sched_task' = NoValue
    /\ completed_tasks' = <<>>
    /\ iter_pos' = 1
    /\ iter_used' = 0

\* faulty variant: an exception inside a cycle ends the scheduler task
CycleFailedLoopEnds ==
    /\ sched_pc' = "ended"
    /\ sched_task' = NoValue
    /\ completed_tasks' = <<>>
    /\ iter_pos' = 1
    /\ iter_used' = 0

\* an exception left the try of _task_scheduler: except Exception logs it, the
\* async with it passed through has released the lock, and the loop goes on
\* to its sleep
CycleFailed == EndCycle

\* running_tasks.pop(task_id) of the cleanup raises KeyError: a task listed in
\* completed_tasks is no longer in running_tasks
CleanupRaises(st, ids) == \E i \in 1..Len(ids) : ids[i] \notin Range(st.running)

\* _update_running_tasks from next() of the iterator over running_tasks.items(),
\* with the iterator at pos, created when the dict held `used` items:
\*  - RuntimeError when the dict changed size since: the error leaves
\*    _update_running_tasks and is logged by _task_scheduler, which sleeps;
\*  - at the end of the loop, async with self._schedule_lock: the cleanup runs
\*    at once when the lock is free, else the scheduler waits for the lock;
\*  - else the next item and the call of get_finetune_status.
\* st holds all_tasks, running_tasks and user_task_counts as they are now.
IterNext(st, pos, used, completed, lk) ==
    IF Len(st.running) # used
    THEN /\ all_tasks' = st.tasks
         /\ running_tasks' = st.running
         /\ user_task_counts' = st.counts
         /\ CycleFailed
    ELSE IF pos > Len(st.running)
    THEN IF lk = "free"
         THEN LET done == CleanupLoop(st, completed) IN
              /\ all_tasks' = done.tasks
              /\ running_tasks' = done.running
              /\ user_task_counts' = done.counts
              /\ EndCycle
         ELSE /\ all_tasks' = st.tasks
              /\ running_tasks' = st.running
              /\ user_task_counts' = st.counts
              /\ sched_pc' = "cleanup"
              /\ sched_task' = NoValue
              /\ completed_tasks' = completed
              /\ iter_pos' = pos
              /\ iter_used' = used
    ELSE /\ all_tasks' = st.tasks
         /\ running_tasks' = st.running
         /\ user_task_counts' = st.counts
         /\ sched_pc' = "status_call"
         /\ sched_task' = Some(st.running[pos])
         /\ completed_tasks' = completed
         /\ iter_pos' = pos + 1
         /\ iter_used' = used

\* faulty variant: a task is promoted only when nothing runs
CanPromoteWhenIdle(running, queue) ==
    running = <<>> /\ queue # <<>>

\* faulty variant: the scheduler promotes nothing
CanPromoteNever(running, queue) == FALSE

\* faulty variant: the capacity test off by one
CanPromoteOffByOne(running, queue) ==
    Len(running) <= max_concurrent_tasks /\ queue # <<>>

\* the condition of the promotion loop
CanPromote(running, queue) ==
    Len(running) < max_concurrent_tasks /\ queue # <<>>

\* faulty variant: _update_running_tasks is entered with the lock still held
LockKeptAfterPromotion == "scheduler"

\* the holder of the lock when the async with block of _task_scheduler is
\* left: _update_running_tasks is called after the block
LockAfterPromotion == "free"

\* faulty variant: the task handed to _start_task stays in the wait queue
DequeueKeepsHead(queue) == queue

\* what task_queue.popleft() leaves in the queue
Dequeue(queue) == Tail(queue)

\* the promotion loop from its test, holding the lock: dequeue and call
\* start_finetune, or leave the lock and enter _update_running_tasks
PromoteLoop(st, queue) ==
    IF CanPromote(st.running, queue)
    THEN /\ task_queue' = Dequeue(queue)
         /\ sched_task' = Some(Head(queue))
         /\ sched_pc' = "start_call"
         /\ lock' = "scheduler"
         /\ all_tasks' = st.tasks
         /\ running_tasks' = st.running
         /\ user_task_counts' = st.counts
         /\ UNCHANGED <<completed_tasks, iter_pos, iter_used>>
    ELSE /\ task_queue' = queue
         /\ lock' = LockAfterPromotion
         /\ IterNext(st, 1, Len(st.running), <<>>, LockAfterPromotion)

Store == [tasks |-> all_tasks, running |-> running_tasks, counts |-> user_task_counts]

\* a cycle of _task_scheduler from the end of the sleep: async with
\* self._schedule_lock, then the promotion loop
SchedulerCycle ==
    /\ sched_pc = "sleep"
    /\ lock = "free"
    /\ PromoteLoop(Store, task_queue)
    /\ UNCHANGED <<process, max_concurrent_tasks, max_tasks_per_user, cancel_pc, cancel_task_id>>

\* faulty variant: a failed start keeps the quota slot
StartFailureKeepsCount(u) == user_task_counts

\* the except branch of _start_task: the counter of the task's user
StartFailureCounts(u) == [user_task_counts EXCEPT ![u] = @ - 1]

\* faulty variant: the started task runs without a recorded job id
StartTaskNoJobId(t, ok) ==
    IF ok
    THEN [tasks   |-> [all_tasks EXCEPT ![t].status = RUNNING,
                                        ![t].started_at = Some(UtcNow(all_tasks[t]))],
          running |-> Append(running_tasks, t),
          counts  |-> user_task_counts]
    ELSE [tasks   |-> [all_tasks EXCEPT ![t].status = FAILED,
                                        ![t].error_message = Some(StartError),
                                        ![t].finished_at = Some(UtcNow(all_tasks[t]))],
          running |-> running_tasks,
          counts  |-> StartFailureCounts(all_tasks[t].user_id)]

\* faulty variant: the record of a task that failed to start is deleted
StartTaskDeletesFailed(t, ok) ==
    IF ok
    THEN [tasks   |-> [all_tasks EXCEPT ![t].job_id = Some(t),
                                        ![t].status = RUNNING,
                                        ![t].started_at = Some(UtcNow(all_tasks[t]))],
          running |-> Append(running_tasks, t),
          counts  |-> user_task_counts]
    ELSE [tasks   |-> [x \in DOMAIN all_tasks \ {t} |-> all_tasks[x]],
          running |-> running_tasks,
          counts  |-> StartFailureCounts(all_tasks[t].user_id)]

\* _start_task from the return of start_finetune: the job id is recorded and
\* the task runs, or (start_finetune raised) the task has failed
StartTask(t, ok) ==
    IF ok
    THEN [tasks   |-> [all_tasks EXCEPT ![t].job_id = Some(t),
                                        ![t].status = RUNNING,
                                        ![t].started_at = Some(UtcNow(all_tasks[t]))],
          running |-> Append(running_tasks, t),
          counts  |-> user_task_counts]
    ELSE [tasks   |-> [all_tasks EXCEPT ![t].status = FAILED,
                                        ![t].error_message = Some(StartError),
                                        ![t].finished_at = Some(UtcNow(all_tasks[t]))],
          running |-> running_tasks,
          counts  |-> StartFailureCounts(all_tasks[t].user_id)]

\* faulty variant: a task whose start failed goes back to the wait queue
StartReturnRequeues(ok) ==
    /\ sched_pc = "start_call"
    /\ \E t \in sched_task :
          PromoteLoop(StartTask(t, ok),
                      IF ok THEN task_queue ELSE Append(task_queue, t))
    /\ UNCHANGED <<process, max_concurrent_tasks, max_tasks_per_user, cancel_pc, cancel_task_id>>

\* the return of start_finetune, and the promotion loop from there
StartReturn(ok) ==
    /\ sched_pc = "start_call"
    /\ \E t \in sched_task : PromoteLoop(StartTask(t, ok), task_queue)
    /\ UNCHANGED <<process, max_concurrent_tasks, max_tasks_per_user, cancel_pc, cancel_task_id>>

\* what get_finetune_status may do: a status dict, or raise
StatusReplies == [succeeded : BOOLEAN, failed : BOOLEAN, raised : {FALSE}]
                 \cup {[succeeded |-> FALSE, failed |-> FALSE, raised |-> TRUE]}

\* faulty variant: an error of the status query fails the task
PollTaskFailsOnError(task, reply) ==
    IF reply.raised THEN [task EXCEPT !.status = FAILED,
                                      !.error_message = Some(JobFailedMessage)]
    ELSE IF reply.succeeded THEN [task EXCEPT !.status = COMPLETED]
    ELSE IF reply.failed THEN [task EXCEPT !.status = FAILED,
                                           !.error_message = Some(JobFailedMessage)]
    ELSE task

\* the body of the polling loop from the return of get_finetune_status:
\* status.get("succeeded"), elif status.get("failed"); an error is logged
PollTask(task, reply) ==
    IF reply.raised THEN task
    ELSE IF reply.succeeded THEN [task EXCEPT !.status = COMPLETED]
    ELSE IF reply.failed THEN [task EXCEPT !.status = FAILED,
                                           !.error_message = Some(JobFailedMessage)]
    ELSE task

\* faulty variant: a task that ended is never listed for the cleanup
PollCompletedNever(completed, t, reply) == completed

\* completed_tasks.append(task_id) in the two branches that end the task
PollCompleted(completed, t, reply) ==
    IF ~reply.raised /\ (reply.succeeded \/ reply.failed)
    THEN Append(completed, t) ELSE completed

\* the return of get_finetune_status, and the polling loop from there
StatusReturn(reply) ==
    /\ sched_pc = "status_call"
    /\ \E t \in sched_task :
        IterNext([tasks   |-> [all_tasks EXCEPT ![t] = PollTask(@, reply)],
                  running |-> running_tasks,
                  counts  |-> user_task_counts],
                 iter_pos, iter_used, PollCompleted(completed_tasks, t, reply), lock)
    /\ UNCHANGED <<process, max_concurrent_tasks, max_tasks_per_user, task_queue, lock,
                   cancel_pc, cancel_task_id>>

\* the cleanup of a scheduler that waited for the lock, then the sleep
Cleanup ==
    /\ sched_pc = "cleanup"
    /\ lock = "free"
    /\ LET done == CleanupLoop(Store, completed_tasks) IN
       /\ all_tasks' = done.tasks
       /\ running_tasks' = done.running
       /\ user_task_counts' = done.counts
    /\ IF CleanupRaises(Store, completed_tasks) THEN CycleFailed ELSE EndCycle
    /\ UNCHANGED <<process, max_concurrent_tasks, max_tasks_per_user, task_queue, lock,
                   cancel_pc, cancel_task_id>>

----------------------------------------------------------------------------
\* The adapter of the deployment: K8sFinetuneService over FinetuneJobClient
\* over KubeJobClient (task_manager_singleton.py builds the manager with it).

\* What the cluster holds for a job name: a Job with its status counts (None
\* when a count is zero), no such Job (404), or an API error.
JobCount == {NoValue, Some(1)}
K8sJobs ==
    [kind : {"job"}, active : JobCount, succeeded : JobCount, failed : JobCount]
    \cup {[kind |-> k, active |-> NoValue, succeeded |-> NoValue, failed |-> NoValue] :
             k \in {"missing", "api_error"}}

\* `x if x else 0`
OrZero(opt) == IF \E v \in opt : v # 0 THEN CHOOSE v \in opt : TRUE ELSE 0

\* KubeJobClient._serialize_job: the counts are entries of the dict under the
\* key "status"
SerializeJob(job) ==
    [name          |-> "finetune-job",
     namespace     |-> "finetune",
     creation_time |-> NoValue,
     status        |-> [active          |-> OrZero(job.active),
                        succeeded       |-> OrZero(job.succeeded),
                        failed          |-> OrZero(job.failed),
                        completion_time |-> NoValue,
                        start_time      |-> NoValue],
     conditions    |-> <<>>]

\* KubeJobClient.get_job_status: the serialized Job, {"status": "NotFound"}
\* for a 404, or the error raised
GetJobStatus(job) ==
    IF job.kind = "job" THEN [raised |-> FALSE, value |-> SerializeJob(job)]
    ELSE IF job.kind = "missing" THEN [raised |-> FALSE, value |-> [status |-> "NotFound"]]
    ELSE [raised |-> TRUE, value |-> [status |-> "error"]]

\* FinetuneJobClient.get_finetune_job_status hands the dict on
GetFinetuneJobStatus(job) == GetJobStatus(job)

\* FinetuneJobClient.get_finetune_job calls self.kube_client.read_namespaced_job,
\* which KubeJobClient does not have (its API objects are batch_v1 and core_v1):
\* the call raises AttributeError for every job
GetFinetuneJobRaises(job) == TRUE

\* K8sFinetuneService._verify_job_ownership: False when get_finetune_job
\* raises, else the comparison of the label "user-id" with the caller; the
\* labels create_finetune_job writes are app, job-id, model and type
JobLabels == {"app", "job-id", "model", "type"}
VerifyJobOwnership(u, job) ==
    IF GetFinetuneJobRaises(job) THEN FALSE ELSE "user-id" \in JobLabels

\* K8sFinetuneService.get_finetune_status: ValueError when the ownership check
\* fails, else what get_finetune_job_status returns or raises
K8sGetFinetuneStatus(u, job) ==
    IF ~VerifyJobOwnership(u, job)
    THEN [raised |-> TRUE, value |-> [status |-> "error"]]
    ELSE GetFinetuneJobStatus(job)

\* KubeJobClient.delete_job through FinetuneJobClient.delete_finetune_job
DeleteJob(job) ==
    IF job.kind = "job" THEN "true"
    ELSE IF job.kind = "missing" THEN "false"
    ELSE "raised"

\* K8sFinetuneService.stop_finetune
K8sStopFinetune(u, job) ==
    IF ~VerifyJobOwnership(u, job) THEN "raised" ELSE DeleteJob(job)

\* dict.get(key): None for a key the dict does not have
DictGet(d, k) == IF k \in DOMAIN d THEN Some(d[k]) ELSE NoValue

\* the truth value of status.get(key) in the polling loop
Truthy(opt) == \E v \in opt : v # 0

\* what the polling loop reads from the result of get_finetune_status:
\* status.get("succeeded") and status.get("failed") on the dict itself
PollReply(result) ==
    [raised    |-> result.raised,
     succeeded |-> ~result.raised /\ Truthy(DictGet(result.value, "succeeded")),
     failed    |-> ~result.raised /\ Truthy(DictGet(result.value, "failed"))]

\* the return of get_finetune_status of K8sFinetuneService for a job in the
\* state `job`, and the polling loop from there
StatusReturnK8s(job) ==
    \E t \in sched_task :
        StatusReturn(PollReply(K8sGetFinetuneStatus(all_tasks[t].user_id, job)))

\* the return of stop_finetune of K8sFinetuneService, and cancel_task from there
CancelStopReturnK8s(job) ==
    \E t \in cancel_task_id :
        CancelStopReturn(K8sStopFinetune(all_tasks[t].user_id, job))

----------------------------------------------------------------------------
\* get_task_status

\* datetime.isoformat(): the text of a timestamp; None stays None
IsoFormat(ts) == <<"iso", ts>>
IsoFormatOpt(opt) == {IsoFormat(ts) : ts \in opt}

\* get_task_status for a task that is not Running (no live status is asked):
\* the ValueError, or status_info
GetTaskStatus(u, t) ==
    IF NotFound(u, t) THEN [error |-> "not_found"]
    ELSE [task_id       |-> all_tasks[t].task_id,
          status        |-> all_tasks[t].status,
          created_at    |-> IsoFormat(all_tasks[t].created_at),
          started_at    |-> IsoFormatOpt(all_tasks[t].started_at),
          finished_at   |-> IsoFormatOpt(all_tasks[t].finished_at),
          error_message |-> all_tasks[t].error_message]

\* faulty variant: the error of the live query reaches the caller
GetTaskStatusLiveRaises(u, t, reply) ==
    IF NotFound(u, t) THEN [error |-> "not_found"]
    ELSE IF all_tasks[t].status = RUNNING /\ all_tasks[t].job_id # NoValue
    THEN IF reply.raised
         THEN [error |-> "status_error"]
         ELSE [task_id       |-> all_tasks[t].task_id,
               status        |-> all_tasks[t].status,
               created_at    |-> IsoFormat(all_tasks[t].created_at),
               started_at    |-> IsoFormatOpt(all_tasks[t].started_at),
               finished_at   |-> IsoFormatOpt(all_tasks[t].finished_at),
               error_message |-> all_tasks[t].error_message,
               job_status    |-> [succeeded |-> reply.succeeded, failed |-> reply.failed]]
    ELSE GetTaskStatus(u, t)

\* get_task_status with `reply` what get_finetune_status does when it is
\* asked: status_info is built before the await and nothing is read from the
\* task after it; job_status is added unless the query raised
GetTaskStatusLive(u, t, reply) ==
    IF NotFound(u, t) THEN [error |-> "not_found"]
    ELSE IF all_tasks[t].status = RUNNING /\ all_tasks[t].job_id # NoValue /\ ~reply.raised
    THEN [task_id       |-> all_tasks[t].task_id,
          status        |-> all_tasks[t].status,
          created_at    |-> IsoFormat(all_tasks[t].created_at),
          started_at    |-> IsoFormatOpt(all_tasks[t].started_at),
          finished_at   |-> IsoFormatOpt(all_tasks[t].finished_at),
          error_message |-> all_tasks[t].error_message,
          job_status    |-> [succeeded |-> reply.succeeded, failed |-> reply.failed]]
    ELSE GetTaskStatus(u, t)

\* a call of get_task_status, for any caller, task id and reply of the
\* adapter: it takes no lock and assigns nothing to the task or the
\* collections; what it returns is GetTaskStatusLive
GetTaskStatusCall == UNCHANGED vars

----------------------------------------------------------------------------
\* list_user_tasks

\* the values of skip and limit: 0..MaxPage
PageArgs == 0..MaxPage

\* [task for task in self.all_tasks.values() if task.user_id == user_id]
UserTasks(u) == SelectSeq(all_tasks, LAMBDA task : task.user_id = u)

\* list.sort(key=created_at, reverse=True) is stable: a task goes behind the
\* tasks that are newer or of the same created_at
RECURSIVE InsertNewestFirst(_, _)
InsertNewestFirst(sorted, task) ==
    IF sorted = <<>> THEN <<task>>
    ELSE IF Head(sorted).created_at >= task.created_at
    THEN <<Head(sorted)>> \o InsertNewestFirst(Tail(sorted), task)
    ELSE <<task>> \o sorted

\* faulty variant: the sort without reverse=True
SortOldestFirst(tasks) == tasks

RECURSIVE SortNewestFirst(_)
SortNewestFirst(tasks) ==
    IF tasks = <<>> THEN <<>>
    ELSE InsertNewestFirst(SortNewestFirst(SubSeq(tasks, 1, Len(tasks) - 1)),
                           tasks[Len(tasks)])

\* user_tasks[skip:skip + limit], for skip and limit that are not negative
Slice(s, skip, limit) ==
    LET first == IF skip < Len(s) THEN skip + 1 ELSE Len(s) + 1
        last  == IF skip + limit < Len(s) THEN skip + limit ELSE Len(s)
    IN SubSeq(s, first, last)

\* the dict list_user_tasks makes of a task
TaskInfo(task) ==
    [task_id       |-> task.task_id,
     status        |-> task.status,
     created_at    |-> IsoFormat(task.created_at),
     started_at    |-> IsoFormatOpt(task.started_at),
     finished_at   |-> IsoFormatOpt(task.finished_at),
     error_message |-> task.error_message]

ListUserTasks(u, skip, limit) ==
    LET tasks == Slice(SortNewestFirst(UserTasks(u)), skip, limit)
    IN [i \in 1..Len(tasks) |-> TaskInfo(tasks[i])]

\* a call of list_user_tasks, for any user, skip and limit: it takes no lock
\* and assigns nothing; what it returns is ListUserTasks
ListUserTasksCall == UNCHANGED vars

----------------------------------------------------------------------------

\* The HTTP routes (api/routes/finetune.py): the status code of the response
\* as the route computes it from what the manager's method does.

\* What a route's code can end with: a return, or an exception of one of the
\* classes its handlers tell apart.
RouteOutcomes == {"return", "ValueError", "HTTPException400", "Exception"}

\* An exception no handler of the route catches: main.py registers no
\* exception handler, so the server's error middleware answers 500; an
\* HTTPException that leaves the route is answered with its own status code.
Unhandled(outcome) ==
    CASE outcome = "return" -> 200
      [] outcome = "HTTPException400" -> 400
      [] OTHER -> 500

\* try / except ValueError -> 404 / except Exception -> 500 of POST /stop and
\* GET /status; HTTPException is an Exception and not a ValueError, so one
\* raised inside the try is caught by the second handler
Handlers(outcome) ==
    CASE outcome = "return" -> 200
      [] outcome = "ValueError" -> 404
      [] OTHER -> 500

\* POST /start: submit_task, then get_task_status of the new task (Pending,
\* of the caller: no error); the try and its handlers are commented out
RouteStartFinetune(u) ==
    Unhandled(IF SubmitResult(u) = "quota_error" THEN "ValueError" ELSE "return")

\* POST /stop/{task_id}, result being what cancel_task did: "not_found" is its
\* ValueError, "false" makes the route raise HTTPException(400) inside its try
RouteStopFinetune(result) ==
    Handlers(CASE result = "not_found" -> "ValueError"
               [] result = "true" -> "return"
               [] OTHER -> "HTTPException400")

\* GET /status/{task_id}, status being what get_task_status did; an error
\* of get_finetune_metrics is caught inside the route
RouteGetFinetuneStatus(status) ==
    Handlers(IF status = [error |-> "not_found"] THEN "ValueError" ELSE "return")

----------------------------------------------------------------------------

Next ==
    \/ \E u \in Users, p \in Params : SubmitTask(u, p)
    \/ \E u \in Users, t \in TaskIds : CancelTask(u, t)
    \/ \E reply \in StopReplies : CancelStopReturn(reply)
    \/ SchedulerCycle
    \/ \E ok \in BOOLEAN : StartReturn(ok)
    \/ \E reply \in StatusReplies : StatusReturn(reply)
    \/ Cleanup
    \/ GetTaskStatusCall
    \/ ListUserTasksCall

Spec == Init /\ [][Next]_vars

\* The manager with K8sFinetuneService as its adapter.  The methods of this
\* adapter never suspend (their awaits are of coroutines that call the
\* synchronous Kubernetes client), so the interleavings allowed here at the
\* adapter calls are more than the deployment has.
NextK8s ==
    \/ \E u \in Users, p \in Params : SubmitTask(u, p)
    \/ \E u \in Users, t \in TaskIds : CancelTask(u, t)
    \/ \E job \in K8sJobs : CancelStopReturnK8s(job)
    \/ SchedulerCycle
    \/ \E ok \in BOOLEAN : StartReturn(ok)
    \/ \E job \in K8sJobs : StatusReturnK8s(job)
    \/ Cleanup
    \/ GetTaskStatusCall
    \/ ListUserTasksCall

SpecK8s == Init /\ [][NextK8s]_vars

----------------------------------------------------------------------------
\* task_manager_singleton.py: the process from its start, before the startup
\* event has called init_task_manager.

\* The module is loaded: _task_manager_instance = None, nothing is cached and
\* no manager exists; the fields of the manager hold no value of a run until
\* the constructor assigns them.
InitProcess ==
    /\ task_manager_instance = NoValue
    /\ scheduler_loops = 0
    /\ get_task_manager_cache = NoValue
    /\ max_concurrent_tasks = 0
    /\ max_tasks_per_user = 0
    /\ all_tasks = <<>>
    /\ task_queue = <<>>
    /\ running_tasks = <<>>
    /\ user_task_counts = [u \in Users |-> 0]
    /\ lock = "free"
    /\ sched_pc = "sleep"
    /\ sched_task = NoValue
    /\ completed_tasks = <<>>
    /\ iter_pos = 1
    /\ iter_used = 0
    /\ cancel_pc = "idle"
    /\ cancel_task_id = NoValue

\* FinetuneTaskManager.__init__: the fields of a new manager, and
\* asyncio.create_task(self._task_scheduler())
Construct(mc, mu) ==
    /\ max_concurrent_tasks' = mc
    /\ max_tasks_per_user' = mu
    /\ all_tasks' = <<>>
    /\ task_queue' = <<>>
    /\ running_tasks' = <<>>
    /\ user_task_counts' = [u \in Users |-> 0]
    /\ lock' = "free"
    /\ sched_pc' = "sleep"
    /\ sched_task' = NoValue
    /\ completed_tasks' = <<>>
    /\ iter_pos' = 1
    /\ iter_used' = 0
    /\ cancel_pc' = "idle"
    /\ cancel_task_id' = NoValue
    /\ scheduler_loops' = scheduler_loops + 1

\* faulty variant: init_task_manager builds a manager at every call
InstanceAlwaysMissing == TRUE

\* if _task_manager_instance is None
InstanceMissing == task_manager_instance = NoValue

\* init_task_manager(max_concurrent_tasks = mc, max_tasks_per_user = mu): it
\* builds the manager when there is none (ok is FALSE when building the
\* Kubernetes client raises, which leaves the instance None) and returns
\* _task_manager_instance.  A manager is named by its rank among the managers
\* built.
InitTaskManager(mc, mu, ok) ==
    IF InstanceMissing
    THEN IF ok
         THEN /\ Construct(mc, mu)
              /\ task_manager_instance' = Some(scheduler_loops + 1)
              /\ UNCHANGED get_task_manager_cache
         ELSE UNCHANGED vars
    ELSE UNCHANGED vars

\* what get_task_manager() gives its caller: the value lru_cache holds, else
\* _task_manager_instance; no value is the RuntimeError
GetTaskManager ==
    IF get_task_manager_cache # NoValue THEN get_task_manager_cache
    ELSE task_manager_instance

\* a call of get_task_manager(): lru_cache keeps what the function returned,
\* and nothing when it raised
GetTaskManagerCall ==
    /\ get_task_manager_cache' = GetTaskManager
    /\ UNCHANGED <<task_manager_instance, scheduler_loops, max_concurrent_tasks,
                   max_tasks_per_user, all_tasks, task_queue, running_tasks,
                   user_task_counts, lock, sched_pc, sched_task, completed_tasks,
                   iter_pos, iter_used, cancel_pc, cancel_task_id>>

\* The process: calls of init_task_manager and get_task_manager at any time,
\* and the operations of the manager once it exists.
NextProcess ==
    \/ \E mc, mu \in 1..MaxLimit, ok \in BOOLEAN : InitTaskManager(mc, mu, ok)
    \/ GetTaskManagerCall
    \/ task_manager_instance # NoValue /\ Next

SpecProcess == InitProcess /\ [][NextProcess]_vars

----------------------------------------------------------------------------

\* The scheduling of the event loop: the sleep of the scheduler ends and a
\* call into the adapter returns (weak fairness of the steps that wait for
\* nothing else).  The two steps of the scheduler that acquire the lock are
\* strongly fair: asyncio.Lock wakes its waiters first in, first out, and a
\* coroutine that finds a waiter queues behind it, so a scheduler that waits
\* for the lock gets it although other coroutines keep taking it.
Fairness ==
    /\ SF_vars(SchedulerCycle)
    /\ WF_vars(\E ok \in BOOLEAN : StartReturn(ok))
    /\ WF_vars(\E reply \in StatusReplies : StatusReturn(reply))
    /\ SF_vars(Cleanup)
    /\ WF_vars(\E reply \in StopReplies : CancelStopReturn(reply))

SpecFair == Spec /\ Fairness

----------------------------------------------------------------------------

\* The replies of get_finetune_status that report the end of the job.
EndReplies == {reply \in StatusReplies : ~reply.raised /\ (reply.succeeded \/ reply.failed)}

\* the backend reports the job of task t as succeeded or failed
JobReported(t) ==
    /\ sched_task = Some(t)
    /\ \E reply \in EndReplies : StatusReturn(reply)

\* A backend whose jobs end: a job that is asked about again and again is
\* reported succeeded or failed at some time.
JobsEnd == \A t \in TaskIds : SF_vars(JobReported(t))

SpecLive == Spec /\ Fairness /\ JobsEnd

----------------------------------------------------------------------------

\* Claims

Owner(t) == all_tasks[t].user_id

\* a user's tasks that are Pending, Queued or Running, and their number
ActiveTasks(u) == {t \in DOMAIN all_tasks :
                      all_tasks[t].user_id = u /\ IsActive(all_tasks[t].status)}
ActiveCount(u) == Cardinality(ActiveTasks(u))

\* C1: for every user, the number of the user's Pending, Queued or Running
\* tasks never exceeds max_tasks_per_user.
C1_PerUserLimit == \A u \in Users : ActiveCount(u) <= max_tasks_per_user

\* a user at the limit with a task running, after an earlier task of the same
\* user ended
C1_Witness ==
    \E u \in Users :
        /\ ActiveCount(u) = max_tasks_per_user
        /\ \E t \in ActiveTasks(u) : all_tasks[t].status = RUNNING
        /\ \E t \in DOMAIN all_tasks : Owner(t) = u /\ IsTerminal(all_tasks[t].status)

\* C2: running_tasks never holds more than max_concurrent_tasks entries.
C2_ConcurrencyLimit == Len(running_tasks) <= max_concurrent_tasks

\* the running set is full while a task waits and a cancel is in its stop call
C2_Witness ==
    /\ Len(running_tasks) = max_concurrent_tasks
    /\ task_queue # <<>>
    /\ cancel_pc = "stop_call"
    /\ sched_pc = "status_call"

\* C3: for every user, user_task_counts[user] equals the number of the user's
\* tasks that are Pending, Queued or Running.
C3_CounterExact == \A u \in Users : user_task_counts[u] = ActiveCount(u)

\* C4: a submit_task by a user whose Pending, Queued and Running tasks number
\* max_tasks_per_user fails with the quota error and leaves all_tasks,
\* task_queue, running_tasks and user_task_counts as they were.
C4_QuotaRejection ==
    [][\A u \in Users :
         (ActiveCount(u) = max_tasks_per_user /\ \E p \in Params : SubmitTask(u, p))
            => (SubmitResult(u) = "quota_error" /\ UNCHANGED store)]_vars

\* a user at the limit, all tasks live, with room for one more task record,
\* at a moment submit_task can take the lock
C4_Witness ==
    \E u \in Users :
        /\ ActiveCount(u) = max_tasks_per_user
        /\ user_task_counts[u] = max_tasks_per_user
        /\ Len(all_tasks) < MaxTasks
        /\ lock = "free"
        /\ SubmitResult(u) = "quota_error"

\* a task cancelled while it waited: Cancelled and never started
CancelledWhileWaiting(t) ==
    /\ all_tasks[t].status = CANCELLED
    /\ all_tasks[t].job_id = NoValue
    /\ all_tasks[t].started_at = NoValue

\* the scheduler awaits start_finetune for task t
StartInvoked(t) == sched_pc = "start_call" /\ sched_task = Some(t)

\* C5: a successful cancel_task of a waiting task leaves it Cancelled and out
\* of the wait queue, and from then on the task is never Running, never in
\* running_tasks and never handed to start_finetune.
C5_CancelledNeverPromoted ==
    [][\A t \in DOMAIN all_tasks :
         /\ (CancelTask(Owner(t), t) /\ IsWaiting(t))
               => (CancelledWhileWaiting(t)' /\ t \notin Range(task_queue'))
         /\ CancelledWhileWaiting(t)
               => /\ CancelledWhileWaiting(t)'
                  /\ t \notin Range(task_queue')
                  /\ t \notin Range(running_tasks')
                  /\ ~StartInvoked(t)']_vars

\* a task cancelled while waiting, and a task submitted after it running
C5_Witness ==
    \E t, t2 \in DOMAIN all_tasks :
        /\ CancelledWhileWaiting(t)
        /\ t < t2
        /\ all_tasks[t2].status = RUNNING

\* C6: a successful cancel_task of a waiting task of a user who was at
\* max_tasks_per_user releases the slot: submit_task by that user is accepted
\* right after it.
C6_CancelWaitingReleasesSlot ==
    [][\A t \in DOMAIN all_tasks :
         (/\ CancelTask(Owner(t), t)
          /\ IsWaiting(t)
          /\ ActiveCount(Owner(t)) = max_tasks_per_user)
            => SubmitResult(Owner(t))' = "ok"]_vars

\* C7: a Running task becomes Cancelled only in the return of a stop_finetune
\* that reported success, and when stop_finetune reports failure the task is
\* Running when cancel_task returns.
C7_CancelRunning ==
    [][/\ \A t \in DOMAIN all_tasks :
            (all_tasks[t].status = RUNNING /\ all_tasks'[t].status = CANCELLED)
               => (cancel_task_id = Some(t) /\ CancelStopReturn("true"))
       /\ \A reply \in StopReplies \ {"true"} : \A t \in cancel_task_id :
            CancelStopReturn(reply) => all_tasks'[t].status = RUNNING]_vars

\* C8: the status of a Completed, Failed or Cancelled task never changes.
C8_TerminalIsFinal ==
    [][\A t \in DOMAIN all_tasks :
         IsTerminal(all_tasks[t].status)
            => all_tasks'[t].status = all_tasks[t].status]_vars

\* a task whose start failed: Failed, never started
StartFailed(t) ==
    /\ all_tasks[t].status = FAILED
    /\ all_tasks[t].error_message = Some(StartError)
    /\ all_tasks[t].job_id = NoValue

\* C9: when start_finetune fails the task goes from Pending to Failed with the
\* adapter's error as error_message, is not in running_tasks then or later,
\* and a submit_task of its user that the quota rejected is now accepted.
C9_StartFailure ==
    [][/\ \A t \in sched_task :
            StartReturn(FALSE)
               => /\ all_tasks[t].status = PENDING
                  /\ StartFailed(t)'
                  /\ t \notin Range(running_tasks')
                  /\ SubmitResult(Owner(t)) = "quota_error"
                        => SubmitResult(Owner(t))' = "ok"
       /\ \A t \in DOMAIN all_tasks :
            StartFailed(t) => StartFailed(t)' /\ t \notin Range(running_tasks')]_vars

\* a start failure has just freed the slot of a user who was at the limit
C9_Witness ==
    \E t \in DOMAIN all_tasks :
        /\ StartFailed(t)
        /\ user_task_counts[Owner(t)] = max_tasks_per_user - 1
        /\ ActiveCount(Owner(t)) = max_tasks_per_user - 1
        /\ max_tasks_per_user = 2

\* C10: two successive get_task_status reads of a task in a terminal status
\* return the same status, started_at, finished_at and error_message.
C10_TerminalReadsAgree ==
    [][\A t \in DOMAIN all_tasks :
         IsTerminal(GetTaskStatus(Owner(t), t).status)
            => GetTaskStatus(Owner(t), t)' = GetTaskStatus(Owner(t), t)]_vars

\* C11: for every task, finished_at is set exactly when the status is
\* Completed, Failed or Cancelled.
C11_FinishedIffTerminal ==
    \A t \in DOMAIN all_tasks :
        (all_tasks[t].finished_at # NoValue) <=> IsTerminal(all_tasks[t].status)

\* C12: with max_concurrent_tasks = 1, the cycle whose poll of the running task
\* X gets "succeeded" takes X out of running_tasks before it sleeps, and the
\* promotion phase of the next cycle hands the head of the wait queue, Y, to
\* start_finetune; Y is Running once start_finetune returns.
C12_CompletionPromotesNext ==
    [][max_concurrent_tasks = 1 =>
         /\ \A reply \in StatusReplies : \A x \in sched_task :
              (reply.succeeded /\ StatusReturn(reply))
                 => IF sched_pc' = "sleep"
                    THEN running_tasks' = <<>>
                    ELSE sched_pc' = "cleanup" /\ completed_tasks' = <<x>>
         /\ (Cleanup /\ completed_tasks # <<>>) => running_tasks' = <<>>
         /\ (SchedulerCycle /\ running_tasks = <<>> /\ task_queue # <<>>)
               => /\ sched_pc' = "start_call"
                  /\ sched_task' = Some(Head(task_queue))
         /\ \A y \in sched_task :
              StartReturn(TRUE)
                 => all_tasks'[y].status = RUNNING /\ running_tasks' = <<y>>]_vars

\* X of one user Completed and cleaned up, Y of another user Running in its
\* place, under a global limit of 1
C12_Witness ==
    /\ max_concurrent_tasks = 1
    /\ \E x, y \in DOMAIN all_tasks :
        /\ Owner(x) # Owner(y)
        /\ x < y
        /\ all_tasks[x].status = COMPLETED
        /\ all_tasks[x].finished_at # NoValue
        /\ x \notin Range(running_tasks)
        /\ all_tasks[y].status = RUNNING
        /\ running_tasks = <<y>>

\* the scheduler's cleanup takes t out of running_tasks in this step
CleanedUp(t) ==
    /\ sched_pc \in {"status_call", "cleanup"}
    /\ sched_pc' = "sleep"
    /\ t \in Range(running_tasks)
    /\ t \notin Range(running_tasks')

\* C13: when the scheduler has processed a task the backend reported as
\* succeeded (Completed, finished_at recorded, out of running_tasks), the slot
\* of its user is released: the counter is one lower for each task of the user
\* cleaned up, and a submit_task by that user is accepted.
C13_CompletionReleasesSlot ==
    [][\A t \in DOMAIN all_tasks :
         (CleanedUp(t) /\ all_tasks'[t].status = COMPLETED)
            => /\ all_tasks'[t].finished_at # NoValue
               /\ user_task_counts'[Owner(t)] < user_task_counts[Owner(t)]
               /\ SubmitResult(Owner(t))' = "ok"]_vars

\* a user with max_tasks_per_user = 2 tasks submitted, one of them Completed
\* and cleaned up, whose next submit_task is accepted
C13_Witness ==
    \E t, t2 \in DOMAIN all_tasks :
        /\ t # t2
        /\ Owner(t) = Owner(t2)
        /\ max_tasks_per_user = 2
        /\ all_tasks[t].status = COMPLETED
        /\ all_tasks[t].finished_at # NoValue
        /\ t \notin Range(running_tasks)
        /\ IsActive(all_tasks[t2].status)
        /\ user_task_counts[Owner(t)] = 1
        /\ SubmitResult(Owner(t)) = "ok"

\* C14: tasks are handed to start_finetune in the order of their submit_task
\* calls, whatever their users: when start_finetune is invoked for b, no task
\* submitted before b still waits (each was handed to start_finetune before,
\* or was cancelled while it waited).
C14_FifoPromotion ==
    [][\A b \in DOMAIN all_tasks :
         (StartInvoked(b)' /\ ~StartInvoked(b))
            => \A a \in DOMAIN all_tasks :
                  a < b => /\ a \notin Range(task_queue')
                           /\ \/ all_tasks'[a].job_id # NoValue
                              \/ StartFailed(a)'
                              \/ CancelledWhileWaiting(a)']_vars

\* start_finetune is invoked for b while a, a task of another user submitted
\* before b, runs
C14_Witness ==
    \E a, b \in DOMAIN all_tasks :
        /\ a < b
        /\ Owner(a) # Owner(b)
        /\ StartInvoked(b)
        /\ all_tasks[a].status = RUNNING
        /\ all_tasks[a].job_id # NoValue

\* cancel_task(u, t) for a task that does not exist, belongs to another user,
\* or is Completed, Failed or Cancelled
CancelOfNothing(u, t) == NotFound(u, t) \/ IsTerminal(all_tasks[t].status)

\* C15: cancel_task on a task that is terminal, does not exist or belongs to
\* another user is rejected (ValueError or False) and changes nothing: tasks,
\* task_queue, running_tasks and user_task_counts stay as they are and
\* stop_finetune is not called.
C15_RejectedCancelChangesNothing ==
    [][\A u \in Users : \A t \in TaskIds :
         CancelOfNothing(u, t)
            => /\ CancelResult(u, t) \in {"not_found", "false"}
               /\ CancelTask(u, t)
                     => /\ UNCHANGED store
                        /\ UNCHANGED <<lock, cancel_pc, cancel_task_id>>]_vars

\* cancel_task can run (the lock is free) while there are a terminal task with
\* a job, a task of another user and an id that names no task
C15_Witness ==
    /\ lock = "free"
    /\ Len(all_tasks) < MaxTasks
    /\ \E t \in DOMAIN all_tasks :
        /\ IsTerminal(all_tasks[t].status)
        /\ all_tasks[t].job_id # NoValue
        /\ CancelResult(Owner(t), t) = "false"
        /\ \E u \in Users : u # Owner(t) /\ CancelResult(u, t) = "not_found"

\* ids that name no task
FreeIds == TaskIds \ DOMAIN all_tasks

\* C16: for a caller u, get_task_status and cancel_task give the same outcome
\* for an id that names no task and for the id of a task of another user: the
\* same error, nothing of the task in it, and no change of state.
C16_NoExistenceLeak ==
    [][\A u \in Users : \A t \in DOMAIN all_tasks : \A n \in FreeIds :
         Owner(t) # u
            => /\ \A reply \in StatusReplies :
                    /\ GetTaskStatusLive(u, t, reply) = GetTaskStatusLive(u, n, reply)
                    /\ GetTaskStatusLive(u, t, reply) = [error |-> "not_found"]
               /\ CancelResult(u, t) = CancelResult(u, n)
               /\ CancelResult(u, t) = "not_found"
               /\ (CancelTask(u, t) \/ CancelTask(u, n)) => UNCHANGED vars]_vars

\* a running task of one user, another user, and an id that names no task,
\* while cancel_task can run
C16_Witness ==
    /\ lock = "free"
    /\ FreeIds # {}
    /\ \E t \in DOMAIN all_tasks : \E u \in Users :
        /\ Owner(t) # u
        /\ all_tasks[t].status = RUNNING
        /\ all_tasks[t].job_id # NoValue
        /\ GetTaskStatus(u, t) = [error |-> "not_found"]

\* the scheduler enters the polling loop of a cycle in this step
PollingStarts == sched_pc \in {"sleep", "start_call"} /\ sched_pc' = "status_call"

C18_BackendStatusTransitions ==
    [][\A job \in K8sJobs : \A t \in sched_task :
         (job.kind = "job" /\ StatusReturnK8s(job) /\ all_tasks[t].status = RUNNING)
            => /\ PollReply(GetFinetuneJobStatus(job)).succeeded
                     = (OrZero(job.succeeded) > 0)
               /\ OrZero(job.succeeded) > 0
                     => all_tasks'[t].status = COMPLETED
               /\ (OrZero(job.succeeded) = 0 /\ OrZero(job.failed) > 0)
                     => /\ all_tasks'[t].status = FAILED
                        /\ all_tasks'[t].error_message = Some(JobFailedMessage)]_vars

\* the status query of get_task_status raised
QueryFailed(reply) == reply.raised

\* C19: get_task_status of a Running task whose live status query fails
\* returns the stored snapshot (task_id, status, timestamps, error_message)
\* with no job_status and no error, and the call changes no state.
C19_LiveQueryFailure ==
    [][\A t \in DOMAIN all_tasks : \A reply \in StatusReplies :
         (all_tasks[t].status = RUNNING /\ all_tasks[t].job_id # NoValue
             /\ QueryFailed(reply))
            => /\ GetTaskStatusLive(Owner(t), t, reply) = GetTaskStatus(Owner(t), t)
               /\ DOMAIN GetTaskStatusLive(Owner(t), t, reply) =
                     {"task_id", "status", "created_at", "started_at",
                      "finished_at", "error_message"}
               /\ GetTaskStatusLive(Owner(t), t, reply).status = RUNNING
               /\ GetTaskStatusCall => UNCHANGED vars]_vars

\* a Running task with a job, read while the scheduler polls and a cancel
\* holds the lock; a query that succeeds does add job_status
C19_Witness ==
    \E t \in DOMAIN all_tasks :
        /\ all_tasks[t].status = RUNNING
        /\ all_tasks[t].job_id # NoValue
        /\ lock = "cancel"
        /\ sched_pc = "status_call"
        /\ \E reply \in StatusReplies :
              "job_status" \in DOMAIN GetTaskStatusLive(Owner(t), t, reply)
        /\ \E reply \in StatusReplies :
              QueryFailed(reply)
                 /\ "job_status" \notin DOMAIN GetTaskStatusLive(Owner(t), t, reply)

\* the number of the tasks of the owner of t that are newer than t
NewerCount(t) ==
    Cardinality({t2 \in DOMAIN all_tasks :
                    Owner(t2) = Owner(t)
                       /\ all_tasks[t2].created_at > all_tasks[t].created_at})

\* C20: list_user_tasks(user, skip, limit) returns tasks of that user only,
\* newest first by created_at, exactly those at the positions skip ..
\* skip + limit - 1 of that order, terminal tasks included, each as its stored
\* snapshot; the call changes no state.
C20_ListUserTasks ==
    /\ [](\A u \in Users : \A skip \in PageArgs : \A limit \in PageArgs :
            LET page == ListUserTasks(u, skip, limit) IN
            /\ \A i \in 1..Len(page) :
                  /\ page[i].task_id \in DOMAIN all_tasks
                  /\ Owner(page[i].task_id) = u
                  /\ page[i] = GetTaskStatus(u, page[i].task_id)
                  /\ NewerCount(page[i].task_id) = skip + i - 1
            /\ {page[i].task_id : i \in 1..Len(page)} =
                  {t \in DOMAIN all_tasks :
                      Owner(t) = u /\ skip <= NewerCount(t)
                                   /\ NewerCount(t) < skip + limit})
    /\ [][ListUserTasksCall => UNCHANGED vars]_vars

\* a user with an active task and an older terminal task: the first page of
\* one entry is the newer task and the second page is the terminal one
C20_Witness ==
    \E t, t2 \in DOMAIN all_tasks :
        /\ t < t2
        /\ Owner(t) = Owner(t2)
        /\ IsTerminal(all_tasks[t].status)
        /\ IsActive(all_tasks[t2].status)
        /\ ListUserTasks(Owner(t), 0, 1) = <<GetTaskStatus(Owner(t), t2)>>
        /\ ListUserTasks(Owner(t), 1, 1) = <<GetTaskStatus(Owner(t), t)>>
        /\ Len(ListUserTasks(Owner(t), 0, MaxPage)) = 2

\* C21: a task record is never removed: a task id that is in all_tasks is in
\* all_tasks after every step, with the same task_id, user_id and
\* parameters_id.
C21_TaskRecordsKept ==
    [][\A t \in DOMAIN all_tasks :
          /\ t \in DOMAIN all_tasks'
          /\ all_tasks'[t].task_id = all_tasks[t].task_id
          /\ all_tasks'[t].user_id = all_tasks[t].user_id
          /\ all_tasks'[t].parameters_id = all_tasks[t].parameters_id]_vars

\* a task failed to start, another one was cancelled or ended in the polling
\* phase and was cleaned up, and both records are there
C21_Witness ==
    \E a, b \in DOMAIN all_tasks :
        /\ StartFailed(a)
        /\ all_tasks[b].status \in {CANCELLED, COMPLETED}
        /\ all_tasks[b].finished_at # NoValue
        /\ all_tasks[a].task_id = a
        /\ all_tasks[b].task_id = b

\* C22: the routes map the manager's errors by class: the quota error of
\* submit_task in POST /start is answered with a 4xx status, the
\* not-found / not-owned error of cancel_task and get_task_status with 404,
\* and any other failure inside a route with 500.
C22_RouteErrorMapping ==
    /\ \A u \in Users :
          QuotaExceeded(u) => RouteStartFinetune(u) \in 400..499
    /\ \A u \in Users, t \in TaskIds :
          NotFound(u, t) =>
             /\ RouteStopFinetune(CancelResult(u, t)) = 404
             /\ \A reply \in StatusReplies :
                   RouteGetFinetuneStatus(GetTaskStatusLive(u, t, reply)) = 404
    /\ Handlers("Exception") = 500

\* C23: however often init_task_manager is called, at most one manager is
\* built and one scheduler loop started (exactly one once a call has
\* succeeded); a call made when the instance exists changes nothing, whatever
\* its arguments, and the instance is never replaced; get_task_manager raises
\* as long as there is no instance and returns the instance afterwards.
C23_Singleton ==
    /\ [](/\ scheduler_loops <= 1
          /\ task_manager_instance # NoValue => scheduler_loops = 1
          /\ task_manager_instance = NoValue => GetTaskManager = NoValue
          /\ task_manager_instance # NoValue => GetTaskManager = task_manager_instance
          /\ task_manager_instance # NoValue =>
                \A mc, mu \in 1..MaxLimit, ok \in BOOLEAN :
                   ~ENABLED (InitTaskManager(mc, mu, ok) /\ vars' # vars))
    /\ [][task_manager_instance # NoValue =>
             UNCHANGED <<task_manager_instance, scheduler_loops>>]_vars

\* the manager was built with limits (1, 2), get_task_manager has returned it
\* and it runs a task, so that a later init_task_manager with other limits is
\* a call on a manager in use
C23_Witness ==
    /\ task_manager_instance = Some(1)
    /\ get_task_manager_cache = Some(1)
    /\ max_concurrent_tasks = 1
    /\ max_tasks_per_user = 2
    /\ running_tasks # <<>>

\* an adapter call is outstanding: the scheduler awaits start_finetune or
\* get_finetune_status, or cancel_task awaits stop_finetune
AdapterCallOutstanding ==
    sched_pc \in {"start_call", "status_call"} \/ cancel_pc = "stop_call"

\* C24: the scheduling lock is not held while a call into the adapter is
\* outstanding, so that no submit_task or cancel_task waits for the lock
\* until start_finetune or stop_finetune has returned.
C24_NoLockAcrossAdapterCalls == AdapterCallOutstanding => lock = "free"

\* the polling phase writes to the task it asked about: the status, and the
\* error_message of a failed job
PollWrites(reply) ==
    /\ StatusReturn(reply)
    /\ \E t \in sched_task : PollTask(all_tasks[t], reply) # all_tasks[t]

\* the coroutine that holds the lock stays at its await over the step, so the
\* step is one of another coroutine
LockKeptByOther ==
    \/ lock = "cancel" /\ cancel_pc = "stop_call" /\ UNCHANGED <<lock, cancel_pc>>
    \/ lock = "scheduler" /\ sched_pc = "start_call"
          /\ UNCHANGED <<lock, sched_pc, sched_task>>

\* C25: every write to the tasks, the queue, the running set and the counters
\* is made by a coroutine that holds the scheduling lock: no step of one
\* coroutine writes while another keeps the lock, and the polling phase holds
\* the lock when it writes status and error_message.
C25_WritesUnderLock ==
    [][/\ LockKeptByOther => UNCHANGED store
       /\ \A reply \in StatusReplies : PollWrites(reply) => lock = "scheduler"]_vars

\* task x is out of running_tasks after the step, with finished_at recorded,
\* and if the step itself took it out the counter of its owner went down
CleanedUpByStep(x) ==
    /\ x \notin Range(running_tasks')
    /\ all_tasks'[x].finished_at # NoValue
    /\ x \in Range(running_tasks) =>
          user_task_counts'[Owner(x)] < user_task_counts[Owner(x)]

\* C26: at the end of a scheduler cycle every task that the polling phase of
\* the cycle marked Completed or Failed is out of running_tasks, has
\* finished_at and has released its owner's slot, also when a cancel_task
\* completed during the polling phase.  A cycle ends with the step that takes
\* the scheduler to its sleep: the last status reply (the tasks marked are
\* completed_tasks and the one this reply marks), or the cleanup that had to
\* wait for the lock.
C26_PolledTasksCleanedInCycle ==
    [][/\ \A reply \in StatusReplies :
             StatusReturn(reply) /\ sched_pc' = "sleep" =>
                \A t \in sched_task :
                   \A x \in Range(PollCompleted(completed_tasks, t, reply)) :
                      CleanedUpByStep(x)
       /\ Cleanup => \A x \in Range(completed_tasks) : CleanedUpByStep(x)]_vars

\* an exception leaves the polling phase or the cleanup of the cycle: the
\* dict iterator finds running_tasks changed (RuntimeError), or the cleanup
\* pops a task that is gone (KeyError)
CycleRaises ==
    \/ (\E reply \in StatusReplies : StatusReturn(reply))
          /\ Len(running_tasks) # iter_used
    \/ Cleanup /\ CleanupRaises(Store, completed_tasks)

\* start_finetune raised in the promotion phase
StartRaises == StartReturn(FALSE)

\* C27: an exception inside a scheduler cycle does not end the scheduler loop
\* and does not reach another coroutine: the step in which the polling phase
\* or the cleanup raises takes the scheduler to its sleep with the lock
\* released, a start that raises leaves the scheduler in its cycle, and a
\* cancel_task in progress stays where it is; the scheduler is always at one of
\* the positions of its loop, a sleeping scheduler starts a cycle as soon as
\* the lock is free, and it comes back to its sleep again and again.
C27_SchedulerSurvivesErrors ==
    /\ [](/\ sched_pc \in {"sleep", "start_call", "status_call", "cleanup"}
          /\ (sched_pc = "sleep" /\ lock = "free") => ENABLED SchedulerCycle)
    /\ [][/\ CycleRaises =>
               /\ sched_pc' = "sleep"
               /\ lock' # "scheduler"
               /\ UNCHANGED <<cancel_pc, cancel_task_id>>
          /\ StartRaises =>
               /\ sched_pc' \in {"start_call", "status_call", "sleep"}
               /\ UNCHANGED <<cancel_pc, cancel_task_id>>]_vars
    /\ []<>(sched_pc = "sleep")

\* a cycle has raised in its polling phase (the iterator was made for more
\* tasks than running_tasks holds) after a task failed to start, and the
\* scheduler is in a later cycle
C27_Witness ==
    /\ sched_pc = "status_call"
    /\ Len(running_tasks) # iter_used
    /\ \E t \in DOMAIN all_tasks : StartFailed(t)

\* a step of the promotion phase: the cycle begins, or start_finetune returns
PromotionStep == SchedulerCycle \/ \E ok \in BOOLEAN : StartReturn(ok)

\* C28: when the promotion phase of a cycle ends (the scheduler goes on to the
\* polling phase instead of another start), the wait queue is empty or
\* running_tasks holds max_concurrent_tasks tasks; in particular after a
\* start that failed, with capacity and a waiting task, the scheduler dequeues
\* the next task and starts it in the same cycle.
C28_PromotionExhausts ==
    [][/\ PromotionStep /\ sched_pc' # "start_call" =>
             task_queue' = <<>> \/ Len(running_tasks') = max_concurrent_tasks
       /\ (StartRaises /\ task_queue # <<>>
              /\ Len(running_tasks) < max_concurrent_tasks) =>
             /\ sched_pc' = "start_call"
             /\ sched_task' = Some(Head(task_queue))
             /\ task_queue' = Tail(task_queue)]_vars

\* with one slot, the first task failed to start and the second one, which
\* waited behind it, was started in the same promotion phase
C28_Witness ==
    \E a, b \in DOMAIN all_tasks :
        /\ max_concurrent_tasks = 1
        /\ a < b
        /\ StartFailed(a)
        /\ all_tasks[a].finished_at = Some(a + 1)
        /\ all_tasks[b].status = RUNNING
        /\ running_tasks = <<b>>
        /\ sched_pc = "status_call"

\* C29: a Running task has a job_id, a Pending or Queued task has none, and a
\* job_id that is set is never changed.
C29_JobIdMatchesStatus ==
    /\ [](\A t \in DOMAIN all_tasks :
            /\ all_tasks[t].status = RUNNING => all_tasks[t].job_id # NoValue
            /\ all_tasks[t].status \in {PENDING, QUEUED} => all_tasks[t].job_id = NoValue)
    /\ [][\A t \in DOMAIN all_tasks :
            all_tasks[t].job_id # NoValue =>
               all_tasks'[t].job_id = all_tasks[t].job_id]_vars

\* one task runs with the job_id its start returned, and another one, which
\* has ended, keeps its own
C29_Witness ==
    \E a, b \in DOMAIN all_tasks :
        /\ all_tasks[a].status = COMPLETED
        /\ all_tasks[a].job_id = Some(a)
        /\ all_tasks[b].status = RUNNING
        /\ all_tasks[b].job_id = Some(b)

C31_ErrorMessageOnlyWhenFailed ==
    \A t \in DOMAIN all_tasks :
        all_tasks[t].error_message # NoValue => all_tasks[t].status = FAILED

\* C32: when stop_finetune returns False or raises in a cancel_task of a
\* Running task, cancel_task returns False and changes neither running_tasks
\* nor user_task_counts nor the task (its finished_at stays unset by this
\* call), and it releases the lock: a task that is still Running can be
\* cancelled again, and that call goes on to stop_finetune.
C32_FailedStopChangesNothing ==
    [][\A reply \in StopReplies \ {"true"} : \A t \in cancel_task_id :
          CancelStopReturn(reply) =>
             /\ StopResult(reply, t) = "false"
             /\ UNCHANGED <<running_tasks, user_task_counts, task_queue>>
             /\ all_tasks'[t] = all_tasks[t]
             /\ lock' = "free" /\ cancel_pc' = "idle"
             /\ all_tasks[t].status = RUNNING =>
                   /\ t \in Range(running_tasks')
                   /\ CancelResult(Owner(t), t)' = "await_stop"]_vars

\* cancel_task awaits stop_finetune for a Running task that is in
\* running_tasks, has no finished_at and is counted for its owner, while the
\* scheduler sleeps: the state in which stop_finetune fails, and the state a
\* retry after the failure is in again
C32_Witness ==
    \E t \in cancel_task_id :
        /\ cancel_pc = "stop_call"
        /\ sched_pc = "sleep"
        /\ all_tasks[t].status = RUNNING
        /\ all_tasks[t].finished_at = NoValue
        /\ running_tasks = <<t>>
        /\ user_task_counts[Owner(t)] = 1

\* the step hands task t to start_finetune
StartInvokedByStep(t) ==
    /\ sched_pc' = "start_call"
    /\ sched_task' = Some(t)
    /\ PromotionStep

\* C33: start_finetune is invoked at most once for a task: a start is always
\* of the task at the head of the wait queue, which the step takes out of the
\* queue, and a task that is not in the queue is never put into it again,
\* whatever happened to its start and to the cycle.
C33_StartAtMostOnce ==
    [][\A t \in DOMAIN all_tasks :
          /\ t \notin Range(task_queue) => t \notin Range(task_queue')
          /\ StartInvokedByStep(t) =>
                /\ task_queue # <<>>
                /\ Head(task_queue) = t
                /\ t \notin Range(task_queue')]_vars

\* in a later cycle than the one that started them, a task whose start failed
\* and a task that was started and has ended are both out of the queue
C33_Witness ==
    \E a, b \in DOMAIN all_tasks :
        /\ StartFailed(a)
        /\ all_tasks[b].job_id # NoValue
        /\ IsTerminal(all_tasks[b].status)
        /\ task_queue = <<>>
        /\ sched_pc = "sleep"

\* C34: when a cycle begins (the scheduler ends its sleep and takes the lock)
\* no terminal task is in running_tasks; the cycle does not go on to poll a
\* task that was terminal when it began, and its first step changes no field
\* of such a task.
C34_TerminalTasksUntouched ==
    /\ []((sched_pc = "sleep" /\ lock = "free") =>
             \A t \in Range(running_tasks) : ~IsTerminal(all_tasks[t].status))
    /\ [][SchedulerCycle =>
             \A t \in DOMAIN all_tasks :
                IsTerminal(all_tasks[t].status) =>
                   /\ all_tasks'[t] = all_tasks[t]
                   /\ ~(sched_pc' = "status_call" /\ sched_task' = Some(t))]_vars

\* C35: running_tasks holds exactly the tasks whose status is Running.
C35_RunningSetIsRunningTasks ==
    \A t \in DOMAIN all_tasks :
        t \in Range(running_tasks) <=> all_tasks[t].status = RUNNING

\* the number of times t occurs in the sequence q
Occurrences(q, t) == Cardinality({i \in 1..Len(q) : q[i] = t})

\* C36: no task is in task_queue and in running_tasks at once, no task is
\* twice in task_queue, and every task in task_queue is in all_tasks with
\* status Pending or Queued.
C36_QueueWellFormed ==
    /\ Range(task_queue) \cap Range(running_tasks) = {}
    /\ \A t \in Range(task_queue) :
          /\ Occurrences(task_queue, t) = 1
          /\ t \in DOMAIN all_tasks
          /\ all_tasks[t].status \in {PENDING, QUEUED}

\* with one slot taken by a Running task, another task waits in the queue
C36_Witness ==
    \E a, b \in DOMAIN all_tasks :
        /\ a # b
        /\ task_queue = <<b>>
        /\ running_tasks = <<a>>
        /\ all_tasks[a].status = RUNNING
        /\ all_tasks[b].status = PENDING

\* C37: the slot of a task is not released twice: the counter of a user is
\* never negative and never below the number of the user's tasks that are
\* Pending, Queued or Running.
C37_SlotReleasedOnce ==
    \A u \in Users :
        /\ user_task_counts[u] >= 0
        /\ user_task_counts[u] >= ActiveCount(u)

\* the race: the poll has listed a task for the cleanup, cancel_task has
\* cancelled it and released its slot since, and the cleanup of the cycle is
\* still to run; the owner has another task that is counted
C37_Witness ==
    \E t \in Range(completed_tasks), t2 \in DOMAIN all_tasks :
        /\ sched_pc = "cleanup"
        /\ lock = "free"
        /\ t \notin Range(running_tasks)
        /\ all_tasks[t].status = CANCELLED
        /\ t2 # t
        /\ Owner(t2) = Owner(t)
        /\ IsActive(all_tasks[t2].status)
        /\ user_task_counts[Owner(t)] = 1

\* the tasks of user u that hold a slot: those that wait or are still in
\* running_tasks, and those cancelled while they waited (C6)
SlotHolders(u) ==
    {x \in DOMAIN all_tasks :
        /\ Owner(x) = u
        /\ \/ x \in Range(task_queue) \/ x \in Range(running_tasks)
           \/ sched_task = Some(x) /\ sched_pc = "start_call"
           \/ CancelledWhileWaiting(x)}

\* task t has ended and its slot is released: it is terminal, out of the
\* queue and of running_tasks, has its finished_at, and the counter of its
\* owner counts no more than the other tasks that hold a slot
EndedAndReleased(t) ==
    /\ t \in DOMAIN all_tasks
    /\ IsTerminal(all_tasks[t].status)
    /\ all_tasks[t].finished_at # NoValue
    /\ t \notin Range(task_queue)
    /\ t \notin Range(running_tasks)
    /\ user_task_counts[Owner(t)] <= Cardinality(SlotHolders(Owner(t)) \ {t})

\* task t exists with one of the statuses S
HasStatus(t, S) == t \in DOMAIN all_tasks /\ all_tasks[t].status \in S

\* nothing is left to do: no task waits or is being started, and every task
\* is Cancelled or has ended with its slot released
AllSettled ==
    /\ task_queue = <<>>
    /\ sched_pc # "start_call"
    /\ \A t \in DOMAIN all_tasks : HasStatus(t, {CANCELLED}) \/ EndedAndReleased(t)

C39_NoLockDeadlock ==
    /\ [](/\ lock = "scheduler" <=> sched_pc = "start_call"
          /\ lock = "cancel" <=> cancel_pc = "stop_call"
          /\ lock \in {"free", "scheduler", "cancel"}
          /\ lock = "free" =>
                \A u \in Users, t \in TaskIds : ENABLED CancelTask(u, t))
    /\ []<>(lock = "free")
    /\ (sched_pc = "cleanup") ~> (sched_pc = "sleep")

\* the scheduler waits for the lock at its cleanup while cancel_task holds it
\* over stop_finetune, with a task still waiting in the queue
C39_Witness ==
    /\ sched_pc = "cleanup"
    /\ lock = "cancel"
    /\ cancel_pc = "stop_call"
    /\ task_queue # <<>>

====
